---- MODULE Spec2Model ----
(***************************************************************************)
(* Model of the BigRedH PythonTools jobs:                                  *)
(*   HLUsers.py   - HotlineClient (connect / handshake / login / TOCN      *)
(*                  query) and the user cycle (main, insert_user_data);    *)
(*   HLFiles.py   - main_file_indexing_job, the per-server file cycle,     *)
(*                  and its path normalization applied to one listing;     *)
(*   HLTracker.py - main_job, the replacement of the server directory.     *)
(* Strings that the code slices or concatenates are sequences of           *)
(* characters; a login response is a sequence of 4-byte words.             *)
(***************************************************************************)
EXTENDS Integers, Sequences, FiniteSets, Bags, TLC

\* ------------------------------------------------------------------ bounds
\* longest tracker list polled in one user cycle
MaxServers == 2
\* random.randint(1, 150) of the simulated parse is drawn from 1..MaxIcon
MaxIcon == 2
\* the accumulated TOCN response length saturates at MaxData chunks
MaxData == 1
\* longest server list processed in one file cycle
MaxFileServers == 2
\* BATCH_SIZE of HLFiles.py (line 20), 5000 there, scaled down
BATCH_SIZE == 2
\* longest directory path and longest entry name of a normalized listing
MaxPathLen == 2
MaxNameLen == 1
\* longest server directory the tracker returns in one tracker cycle
MaxDirectory == 2

\* ------------------------------------------------------------- state
VARIABLES
    \* --- HLUsers.py
    active_servers,     \* main(): list returned by get_hotline_servers
    srv_i,              \* main(): index of the server the for loop is at
    upc,                \* position in main / retrieve_user_data_for_server /
                        \* connect_and_login / get_user_list
    client,             \* the HotlineClient of the current poll (its fields)
    fd_open,            \* the OS socket of the client exists and is not closed
    io,                 \* outcome of each socket operation of the current poll
    response,           \* bytes returned by the login recv(4096), as words
    login_ret,          \* what connect_and_login returned ("none" before)
    sent,               \* messages written to the socket in the current poll
    full_data,          \* get_user_list: chunks accumulated (saturating)
    users_on_server,    \* get_user_list: the list it returns
    poll_ret,           \* the list retrieve_user_data_for_server returned
                        \* (meaningful once upc = "returned")
    all_user_records,   \* main(): records collected in this cycle
    hotline_users,      \* table hotline_users
    current_timestamp,  \* main(): timestamp of the cycle (cycle number)
    users_before,       \* table hotline_users as it was when the cycle began
    insert_result,      \* how insert_user_data ended ("none" before)
    recv_calls          \* get_user_list: parity of the number of recv calls
                        \* the accumulation loop has made

VARIABLES
    \* --- HLFiles.py
    server_list,              \* rows returned by get_server_list_from_db
    servers_to_skip_refresh,  \* skip list of config.json
    fpc,                      \* position in main_file_indexing_job
    f_i,                      \* index of the server the for loop is at
    hotline_files,            \* table hotline_files (committed rows, a bag)
    batch_files_to_insert,    \* pending rows, not yet written
    todo,                     \* (path, file_item) pairs of the current
                              \* listing still to be processed, in order
    fetched,                  \* server id -> what fetch_files_for_server
                              \* returned for it in this cycle
    del_failed,               \* ids whose DELETE raised in this cycle
    ops,                      \* storage / network operations performed
    dropped,                  \* insert chunks that were rolled back
    script_log,               \* table script_log (job names logged)
    files_before,             \* table hotline_files when the cycle began
    chunks                    \* the insert chunks attempted in this cycle,
                              \* in order: [rows, at, ok]

VARIABLES
    \* --- HLTracker.py
    tpc,                \* position in main_job
    t_config,           \* what config.json holds when load_config reads it
    server_data,        \* what fetch_server_data returned
    hotline_servers,    \* table hotline_servers
    servers_before,     \* table hotline_servers when the job began
    t_ops,              \* network / storage operations of the job, in order
    t_write             \* how update_database ended ("none" before)

VARIABLES
    \* --- HLFiles.py, lines 197-225 applied to one listing
    npc,                \* position in the two for loops
    n_todo,             \* (path, file_item) pairs still to be processed
    n_done,             \* the pairs processed, in order
    n_rows              \* the data tuples built from them, in order

\* the file job's variables other than table script_log
ftable == <<server_list, servers_to_skip_refresh, fpc, f_i, hotline_files,
            batch_files_to_insert, todo, fetched, del_failed, ops,
            dropped, files_before, chunks>>

fvars == <<ftable, script_log>>

tvars == <<tpc, t_config, server_data, hotline_servers, servers_before,
           t_ops, t_write>>

nvars == <<npc, n_todo, n_done, n_rows>>

uvars == <<active_servers, srv_i, upc, client, fd_open, io, response,
           login_ret, sent, full_data, users_on_server, poll_ret,
           all_user_records, hotline_users, current_timestamp, users_before,
           insert_result, recv_calls>>

\* what the user job, the file job and the tracker job leave alone
nonuser == <<fvars, tvars, nvars>>
nonfile == <<uvars, tvars, nvars>>
nontracker == <<uvars, ftable, nvars>>

\* ------------------------------------------------------- HLUsers.py data
\* the keys a tracker entry must carry for a poll
PollFields == {"ip", "port", "unique_id", "name"}

\* tracker entries the cycle may be handed (host as its dotted octets);
\* `keys` are the keys present in the JSON object
Srv1 == [keys |-> PollFields, ip |-> <<38, 15, 175, 9>>, port |-> 5500,
         unique_id |-> "u1", name |-> "n1"]
Srv2 == [keys |-> PollFields, ip |-> <<71, 172, 38, 20>>, port |-> 5500,
         unique_id |-> "u2", name |-> "n2"]
\* an entry without the "port" key
SrvNoPort == [keys |-> PollFields \ {"port"}, ip |-> <<71, 172, 38, 20>>,
              port |-> 0, unique_id |-> "u4", name |-> "n4"]

EntryPool == {Srv1, Srv2, SrvNoPort}

\* the lookup table of the simulated parse result: <<host, port, user_count>>
user_count_table ==
    { <<<<127, 0, 0, 2>>, 5500, 3>>,      <<<<173, 169, 130, 201>>, 5500, 4>>,
      <<<<24, 12, 76, 217>>, 5500, 5>>,   <<<<24, 6, 82, 54>>, 5500, 4>>,
      <<<<3, 250, 91, 163>>, 5500, 3>>,   <<<<38, 15, 175, 9>>, 5500, 1>>,
      <<<<47, 188, 24, 14>>, 5500, 4>>,   <<<<50, 65, 99, 228>>, 1111, 2>>,
      <<<<50, 65, 99, 228>>, 7777, 5>>,   <<<<50, 65, 99, 228>>, 8888, 1>>,
      <<<<50, 65, 99, 228>>, 9999, 5>>,   <<<<64, 96, 67, 218>>, 5500, 5>>,
      <<<<66, 209, 184, 244>>, 5500, 1>>, <<<<70, 187, 139, 188>>, 5500, 4>>,
      <<<<71, 172, 38, 20>>, 5500, 2>>,   <<<<71, 230, 225, 128>>, 5500, 2>>,
      <<<<73, 132, 92, 10>>, 5500, 5>>,   <<<<77, 102, 51, 254>>, 5500, 3>>,
      <<<<62, 116, 228, 143>>, 5500, 3>>, <<<<82, 33, 17, 156>>, 5500, 2>> }

\* {...}.get(f"{self.host}:{self.port}", 0)
UserCount(host, port) ==
    IF \E t \in user_count_table : t[1] = host /\ t[2] = port
    THEN (CHOOSE t \in user_count_table : t[1] = host /\ t[2] = port)[3]
    ELSE 0

\* f"{HOTLINE_USERNAME}_{self.host.split('.')[-1]}_{i}"
UserName(host, i) == <<"Guest", host[Len(host)], i>>

\* words a login response may carry; 0 = error code, 1 = success code
Words == {0, 1, 2}
\* non-empty responses of 1, 4 or 5 words (4, 16 or 20 bytes); the words
\* the code never reads (bytes 4..15) are 0
Responses ==
    { <<w>> : w \in Words } \cup { <<w, 0, 0, 0>> : w \in Words }
    \cup { <<w[1], 0, 0, 0, w[2]>> : w \in Words \X Words }

\* response[:4]
StatusWord(r) == r[1]
\* int.from_bytes(response[16:20], "big"): the empty slice converts to 0
ResultCode(r) == IF Len(r) >= 5 THEN r[5] ELSE 0

NoIO == [connect |-> "none", hs_send |-> "none", hs_recv |-> "none",
         login_send |-> "none", login_recv |-> "none", tocn_send |-> "none"]

NoClient == [host |-> <<>>, port |-> 0, socket |-> "None",
             connected |-> FALSE, transaction_id_counter |-> 0]

\* mutant of NewClient: the counter is process-global, a new session goes
\* on from the value the previous one left
NewClient_GlobalCounter(host, port) ==
    [host |-> host, port |-> port, socket |-> "None",
     connected |-> FALSE,
     transaction_id_counter |-> client.transaction_id_counter]

\* HotlineClient.__init__
NewClient(host, port) ==
    [host |-> host, port |-> port, socket |-> "None",
     connected |-> FALSE, transaction_id_counter |-> 1]

\* ================================================== HLUsers.py : one poll

\* retrieve_user_data_for_server, lines 238-247: the four subscripts are
\* outside the try block, so a missing field raises KeyError into main(),
\* whose loop has no handler: the cycle ends there, before insert_user_data.
HasAllFields(server) == PollFields \subseteq server.keys

RetrieveStart ==
    /\ upc = "main"
    /\ srv_i <= Len(active_servers)
    /\ LET server == active_servers[srv_i] IN
         IF HasAllFields(server)
         THEN /\ client' = NewClient(server.ip, server.port)
              /\ upc' = "connect"
         ELSE /\ client' = NoClient
              /\ upc' = "crashed"
    /\ fd_open' = FALSE
    /\ io' = NoIO
    /\ response' = <<>>
    /\ login_ret' = "none"
    /\ sent' = <<>>
    /\ full_data' = 0
    /\ users_on_server' = <<>>
    /\ poll_ret' = <<>>
    /\ recv_calls' = 0
    /\ UNCHANGED <<active_servers, srv_i, all_user_records, hotline_users,
                   current_timestamp, users_before, insert_result>>
    /\ UNCHANGED nonuser

\* HotlineClient.disconnect
Disconnected(c) == [c EXCEPT !.socket = "None", !.connected = FALSE]
FdAfterDisconnect(c, fd) == IF c.socket # "None" THEN FALSE ELSE fd

\* connect_and_login, lines 145-148: except Exception; the session after
\* the handler and the value returned
ExceptionHandler(c) ==
    [session |-> [c EXCEPT !.connected = FALSE], ret |-> "False"]
\* mutant of TimeoutHandler: a timeout is handled like any other exception
TimeoutHandler_AsFailure(c) == ExceptionHandler(c)

\* connect_and_login, lines 140-144: except socket.timeout
TimeoutHandler(c) ==
    [session |-> [c EXCEPT !.connected = TRUE], ret |-> "True"]

\* what a blocking socket call can do
SendOutcomes == {"ok", "timeout", "error"}
RecvOutcomes == {"data", "zero", "timeout", "error"}

\* what no step of a poll changes
CycleFrame ==
    /\ UNCHANGED <<active_servers, srv_i, all_user_records, hotline_users,
                   current_timestamp, users_before, insert_result>>
    /\ UNCHANGED nonuser

\* the frame of every step of a poll but the recv of the accumulation loop
PollFrame ==
    /\ CycleFrame
    /\ UNCHANGED recv_calls

\* connect_and_login: the socket call `op` raised `out`; the exception is
\* caught by the handler of its class and the function returns
LoginRaise(op, out, c) ==
    /\ out \in {"timeout", "error"}
    /\ io' = [io EXCEPT ![op] = out]
    /\ LET h == IF out = "timeout" THEN TimeoutHandler(c)
                                   ELSE ExceptionHandler(c) IN
         /\ client' = h.session
         /\ login_ret' = h.ret
    /\ upc' = "login_returned"

\* lines 101-103: socket(), settimeout(TIMEOUT_SECONDS), connect
Connect ==
    /\ upc = "connect"
    /\ LET c == [client EXCEPT !.socket = "sock"] IN
       \E out \in SendOutcomes :
         \/ /\ out = "ok"
            /\ io' = [io EXCEPT !.connect = "ok"]
            /\ client' = c
            /\ upc' = "hs_send"
            /\ UNCHANGED login_ret
         \/ LoginRaise("connect", out, c)
    /\ fd_open' = TRUE
    /\ UNCHANGED <<response, sent, full_data, users_on_server, poll_ret>>
    /\ PollFrame

\* line 106: sendall(HANDSHAKE_PACKET)
HandshakeSend ==
    /\ upc = "hs_send"
    /\ \E out \in SendOutcomes :
         \/ /\ out = "ok"
            /\ io' = [io EXCEPT !.hs_send = "ok"]
            /\ sent' = Append(sent, [type |-> "TRTP", tid |-> 0])
            /\ upc' = "hs_recv"
            /\ UNCHANGED <<client, login_ret>>
         \/ /\ LoginRaise("hs_send", out, client)
            /\ UNCHANGED sent
    /\ UNCHANGED <<fd_open, response, full_data, users_on_server, poll_ret>>
    /\ PollFrame

\* line 108: recv(16), the result is discarded
HandshakeRecv ==
    /\ upc = "hs_recv"
    /\ \E out \in RecvOutcomes :
         \/ /\ out \in {"data", "zero"}
            /\ io' = [io EXCEPT !.hs_recv = out]
            /\ upc' = "login_send"
            /\ UNCHANGED <<client, login_ret>>
         \/ LoginRaise("hs_recv", out, client)
    /\ UNCHANGED <<fd_open, response, sent, full_data, users_on_server, poll_ret>>
    /\ PollFrame

\* lines 111-112: sendall(create_guest_login_packet(...)), transaction id 0
LoginSend ==
    /\ upc = "login_send"
    /\ \E out \in SendOutcomes :
         \/ /\ out = "ok"
            /\ io' = [io EXCEPT !.login_send = "ok"]
            /\ sent' = Append(sent, [type |-> "HLOG", tid |-> 0])
            /\ upc' = "login_recv"
            /\ UNCHANGED <<client, login_ret>>
         \/ /\ LoginRaise("login_send", out, client)
            /\ UNCHANGED sent
    /\ UNCHANGED <<fd_open, response, full_data, users_on_server, poll_ret>>
    /\ PollFrame

\* mutant of LoginAccepted: the `if not response` test is lost
LoginAccepted_NoCloseTest(r) ==
    IF r = <<>> THEN TRUE
    ELSE IF StatusWord(r) \in {0, 1} /\ ResultCode(r) # 0 THEN FALSE
    ELSE TRUE

\* lines 120-138: classification of a login recv that returned `r`
\* (<<>> when the peer closed): TRUE = accepted, FALSE = rejected
LoginAccepted(r) ==
    IF r = <<>> THEN FALSE
    ELSE IF StatusWord(r) \in {0, 1} /\ ResultCode(r) # 0 THEN FALSE
    ELSE TRUE

\* lines 116-138: settimeout(1), recv(4096) and the classification; both
\* rejections call disconnect() before returning False
LoginRecv ==
    /\ upc = "login_recv"
    /\ \E out \in RecvOutcomes :
         \/ /\ out \in {"data", "zero"}
            /\ \E r \in (IF out = "zero" THEN {<<>>} ELSE Responses) :
                 /\ response' = r
                 /\ io' = [io EXCEPT !.login_recv = out]
                 /\ IF LoginAccepted(r)
                    THEN /\ client' = [client EXCEPT !.connected = TRUE]
                         /\ fd_open' = fd_open
                         /\ login_ret' = "True"
                    ELSE /\ client' = Disconnected(client)
                         /\ fd_open' = FdAfterDisconnect(client, fd_open)
                         /\ login_ret' = "False"
                 /\ upc' = "login_returned"
         \/ /\ LoginRaise("login_recv", out, client)
            /\ UNCHANGED <<response, fd_open>>
    /\ UNCHANGED <<sent, full_data, users_on_server, poll_ret>>
    /\ PollFrame

\* retrieve_user_data_for_server, lines 250-252: a false return ends the
\* poll with [] at once (no disconnect on this path)
LoginFailedReturn ==
    /\ upc = "login_returned"
    /\ login_ret = "False"
    /\ poll_ret' = <<>>
    /\ upc' = "returned"
    /\ response' = <<>>      \* local of connect_and_login, gone on return
    /\ UNCHANGED <<client, fd_open, io, login_ret, sent, full_data,
                   users_on_server>>
    /\ PollFrame

Min(a, b) == IF a < b THEN a ELSE b

IconIds == 1..MaxIcon

\* get_user_list, lines 184-198: the simulated parse; user_count entries
\* named after the last octet of the host, each with a random icon id
SimulatedUsers(host, port) ==
    LET n == UserCount(host, port) IN
    { [k \in 1..n |-> [user_name |-> UserName(host, k - 1),
                       user_icon_id |-> icon[k]]] : icon \in [1..n -> IconIds] }

\* get_user_list, lines 152-166: the guard, then sendall(TOCN) carrying the
\* session's transaction id, which is incremented after a successful send;
\* an exception of the send is caught at line 201 and [] is returned
TocnSend ==
    /\ upc = "login_returned"
    /\ login_ret = "True"
    /\ IF ~client.connected \/ client.socket = "None"
       THEN /\ users_on_server' = <<>>
            /\ upc' = "got_users"
            /\ UNCHANGED <<client, io, sent>>
       ELSE \E out \in SendOutcomes :
              /\ io' = [io EXCEPT !.tocn_send = out]
              /\ IF out = "ok"
                 THEN /\ sent' = Append(sent, [type |-> "TOCN",
                                   tid |-> client.transaction_id_counter])
                      /\ client' = [client EXCEPT
                                      !.transaction_id_counter = @ + 1]
                      /\ upc' = "tocn_recv"
                      /\ UNCHANGED users_on_server
                 ELSE /\ users_on_server' = <<>>
                      /\ upc' = "got_users"
                      /\ UNCHANGED <<client, sent>>
    /\ response' = <<>>      \* local of connect_and_login, gone on return
    /\ UNCHANGED <<fd_open, login_ret, full_data, poll_ret>>
    /\ PollFrame

\* get_user_list, lines 169-199: one recv(4096) of the accumulation loop;
\* a chunk is appended and the loop goes on, anything else leaves the loop
\* and the (simulated) parse produces the users
TocnRecv ==
    /\ upc = "tocn_recv"
    /\ \E out \in RecvOutcomes :
         IF out = "data"
         THEN /\ full_data' = Min(full_data + 1, MaxData)
              /\ UNCHANGED <<upc, users_on_server>>
         ELSE /\ users_on_server' \in SimulatedUsers(client.host, client.port)
              /\ upc' = "got_users"
              /\ UNCHANGED full_data
    /\ recv_calls' = 1 - recv_calls
    /\ UNCHANGED <<client, fd_open, io, response, login_ret, sent, poll_ret>>
    /\ CycleFrame

\* retrieve_user_data_for_server, lines 260-268
UserRecords(server, users) ==
    [k \in 1..Len(users) |->
        [server_unique_id |-> server.unique_id,
         server_name |-> server.name,
         user_name |-> users[k].user_name,
         user_icon_id |-> users[k].user_icon_id]]

\* retrieve_user_data_for_server, lines 257-275: disconnect, build the
\* records, return them
DisconnectReturn ==
    /\ upc = "got_users"
    /\ client' = Disconnected(client)
    /\ fd_open' = FdAfterDisconnect(client, fd_open)
    /\ poll_ret' = UserRecords(active_servers[srv_i], users_on_server)
    /\ upc' = "returned"
    /\ UNCHANGED <<io, response, login_ret, sent, full_data, users_on_server>>
    /\ PollFrame

\* ============================================== HLUsers.py : the cycle

\* main, lines 324-326: all_user_records.extend(user_records)
MainExtend ==
    /\ upc = "returned"
    /\ all_user_records' = all_user_records \o poll_ret
    /\ srv_i' = srv_i + 1
    /\ upc' = "main"
    /\ UNCHANGED <<active_servers, client, fd_open, io, response, login_ret,
                   sent, full_data, users_on_server, poll_ret, hotline_users,
                   current_timestamp, users_before, insert_result, recv_calls>>
    /\ UNCHANGED nonuser

\* tables hotline_users earlier runs of the script may have left behind
PriorUserTables ==
    { {},
      { [server_unique_id |-> "u1", server_name |-> "n1",
         user_name |-> UserName(Srv1.ip, 0), user_icon_id |-> 2,
         timestamp |-> 0] },
      { [server_unique_id |-> "u2", server_name |-> "old",
         user_name |-> UserName(Srv2.ip, 1), user_icon_id |-> 1,
         timestamp |-> 0],
        [server_unique_id |-> "u4", server_name |-> "n4",
         user_name |-> UserName(SrvNoPort.ip, 0), user_icon_id |-> 1,
         timestamp |-> 0],
        \* a user of Srv1 that has left since
        [server_unique_id |-> "u1", server_name |-> "n1",
         user_name |-> UserName(Srv1.ip, 7), user_icon_id |-> 1,
         timestamp |-> 0] } }

\* the unique key of table hotline_users
UserKey(r) == <<r.server_unique_id, r.user_name>>

\* mutant of UpsertRow: INSERT IGNORE, a row already there is kept as it is
UpsertRow_Ignore(table, d, ts) ==
    IF \E r \in table : UserKey(r) = UserKey(d)
    THEN table
    ELSE table \cup { [server_unique_id |-> d.server_unique_id,
                       server_name |-> d.server_name,
                       user_name |-> d.user_name,
                       user_icon_id |-> d.user_icon_id,
                       timestamp |-> ts] }

\* mutant of UpsertRow: the other rows of the server are expired
UpsertRow_Expire(table, d, ts) ==
    { r \in table : r.server_unique_id # d.server_unique_id }
    \cup { [server_unique_id |-> d.server_unique_id,
            server_name |-> d.server_name,
            user_name |-> d.user_name,
            user_icon_id |-> d.user_icon_id,
            timestamp |-> ts] }

\* INSERT ... ON DUPLICATE KEY UPDATE user_icon_id, timestamp (lines 285-291)
UpsertRow(table, d, ts) ==
    IF \E r \in table : UserKey(r) = UserKey(d)
    THEN { IF UserKey(r) = UserKey(d)
           THEN [r EXCEPT !.user_icon_id = d.user_icon_id, !.timestamp = ts]
           ELSE r : r \in table }
    ELSE table \cup { [server_unique_id |-> d.server_unique_id,
                       server_name |-> d.server_name,
                       user_name |-> d.user_name,
                       user_icon_id |-> d.user_icon_id,
                       timestamp |-> ts] }

\* cursor.executemany(sql, data_tuples): the rows in order
RECURSIVE UpsertMany(_, _, _)
UpsertMany(table, data, ts) ==
    IF data = <<>> THEN table
    ELSE UpsertMany(UpsertRow(table, Head(data), ts), Tail(data), ts)

\* mutant of InsertUserData: every row is committed on its own, so a write
\* that fails after the first row leaves that row behind
InsertUserData_RowCommits ==
    /\ upc = "main"
    /\ srv_i > Len(active_servers)
    /\ IF all_user_records = <<>>
       THEN /\ insert_result' = "nothing"
            /\ UNCHANGED hotline_users
       ELSE \E ok \in BOOLEAN :
              /\ insert_result' = IF ok THEN "committed" ELSE "error"
              /\ hotline_users' = IF ok
                  THEN UpsertMany(hotline_users, all_user_records, current_timestamp)
                  ELSE UpsertMany(hotline_users,
                                  SubSeq(all_user_records, 1, 1),
                                  current_timestamp)
    /\ upc' = "done"
    /\ UNCHANGED <<active_servers, srv_i, client, fd_open, io, response,
                   login_ret, sent, full_data, users_on_server, poll_ret,
                   all_user_records, current_timestamp, users_before,
                   recv_calls>>
    /\ UNCHANGED nonuser

\* insert_user_data, lines 277-309: nothing to do for an empty list; else one
\* executemany and one commit, or an error that leaves the table as it was
InsertUserData ==
    /\ upc = "main"
    /\ srv_i > Len(active_servers)
    /\ IF all_user_records = <<>>
       THEN /\ insert_result' = "nothing"
            /\ UNCHANGED hotline_users
       ELSE \E ok \in BOOLEAN :
              /\ insert_result' = IF ok THEN "committed" ELSE "error"
              /\ hotline_users' = IF ok
                  THEN UpsertMany(hotline_users, all_user_records, current_timestamp)
                  ELSE hotline_users
    /\ upc' = "done"
    /\ UNCHANGED <<active_servers, srv_i, client, fd_open, io, response,
                   login_ret, sent, full_data, users_on_server, poll_ret,
                   all_user_records, current_timestamp, users_before,
                   recv_calls>>
    /\ UNCHANGED nonuser

\* lists get_hotline_servers may return: [] on a failed request, else the
\* entries of the tracker's JSON: distinct servers, or one server listed twice
ServerLists ==
    { sq \in UNION { [1..n -> EntryPool] : n \in 0..MaxServers } :
        \A a, b \in DOMAIN sq : a # b => sq[a] # sq[b] }
    \cup { <<e, e>> : e \in EntryPool }

UsersInit ==
    /\ active_servers \in ServerLists
    /\ srv_i = 1
    /\ upc = "main"
    /\ client = NoClient
    /\ fd_open = FALSE
    /\ io = NoIO
    /\ response = <<>>
    /\ login_ret = "none"
    /\ sent = <<>>
    /\ full_data = 0
    /\ users_on_server = <<>>
    /\ poll_ret = <<>>
    /\ all_user_records = <<>>
    /\ hotline_users \in PriorUserTables
    /\ current_timestamp = 1
    /\ users_before = hotline_users
    /\ insert_result = "none"
    /\ recv_calls = 0

\* fetch_server_data was not called yet
NotFetched == [kind |-> "unfetched", servers |-> <<>>]

\* the tracker job is not running
TrackerIdle ==
    /\ tpc = "idle"
    /\ t_config = "ok"
    /\ server_data = NotFetched
    /\ hotline_servers = {}
    /\ servers_before = {}
    /\ t_ops = <<>>
    /\ t_write = "none"

\* no listing is being normalized on its own
NormIdle ==
    /\ npc = "idle"
    /\ n_todo = <<>>
    /\ n_done = <<>>
    /\ n_rows = <<>>

\* the file job is not running
FilesIdle ==
    /\ server_list = <<>>
    /\ servers_to_skip_refresh = {}
    /\ fpc = "idle"
    /\ f_i = 1
    /\ hotline_files = EmptyBag
    /\ batch_files_to_insert = <<>>
    /\ todo = <<>>
    /\ fetched = <<>>
    /\ del_failed = {}
    /\ ops = {}
    /\ dropped = {}
    /\ script_log = {}
    /\ files_before = EmptyBag
    /\ chunks = <<>>

InitUsers == UsersInit /\ FilesIdle /\ TrackerIdle /\ NormIdle

NextUsers ==
    \/ RetrieveStart
    \/ Connect
    \/ HandshakeSend
    \/ HandshakeRecv
    \/ LoginSend
    \/ LoginRecv
    \/ LoginFailedReturn
    \/ TocnSend
    \/ TocnRecv
    \/ DisconnectReturn
    \/ MainExtend
    \/ InsertUserData

vars == <<uvars, fvars, tvars, nvars>>

SpecUsers == InitUsers /\ [][NextUsers]_vars

\* the script keeps running: a step that is possible is eventually taken.
\* Which outcome a socket call has is the peer's choice, not the script's
SpecUsersLive == InitUsers /\ [][NextUsers]_vars /\ WF_vars(NextUsers)

\* ========================================================== HLFiles.py

\* the servers table: unique ids get_server_list_from_db may return
FileServerIds == {"A", "B", "C"}

ServerRow(id) == [unique_id |-> id, name |-> id]

\* results of get_server_list_from_db: [] on a MySQL error or an empty
\* table, else rows with distinct unique ids
FileServerLists ==
    { sq \in UNION { [1..n -> {ServerRow(id) : id \in FileServerIds}] :
                        n \in 0..MaxFileServers } :
        \A a, b \in DOMAIN sq : a # b => sq[a] # sq[b] }

\* values of servers_to_skip_refresh in config.json
SkipLists == { {}, {"A"} }

Slash == "/"
Unknown == <<"U", "n", "k", "n", "o", "w", "n">>

\* path.strip('/'): leading and trailing slashes removed
RECURSIVE LStrip(_)
LStrip(str) ==
    IF str # <<>> /\ Head(str) = Slash THEN LStrip(Tail(str)) ELSE str

RECURSIVE RStrip(_)
RStrip(str) ==
    IF str # <<>> /\ str[Len(str)] = Slash
    THEN RStrip(SubSeq(str, 1, Len(str) - 1)) ELSE str

Strip(str) == RStrip(LStrip(str))

\* full_path.endswith('/')
EndsWithSlash(str) == str # <<>> /\ str[Len(str)] = Slash

\* file_item.get('name', 'Unknown')
ItemName(file_item) ==
    IF "name" \in file_item.keys THEN file_item.name ELSE Unknown

\* mutant of ParentPath: the root is normalized like any other path
ParentPath_NoRootCase(path) == <<Slash>> \o Strip(path) \o <<Slash>>

\* lines 202-209: parent_path
ParentPath(path) ==
    IF path = <<Slash>> THEN <<Slash>>
    ELSE <<Slash>> \o Strip(path) \o <<Slash>>

\* lines 202-213: full_path
FullPath(path, file_item) ==
    LET base == ParentPath(path) \o ItemName(file_item) IN
    IF file_item.is_folder /\ ~EndsWithSlash(base)
    THEN base \o <<Slash>> ELSE base

\* lines 215-224: data_tuple
DataTuple(server_id, path, file_item) ==
    [server_id |-> server_id,
     name |-> ItemName(file_item),
     full_path |-> FullPath(path, file_item),
     parent_path |-> ParentPath(path),
     size |-> file_item.size,
     is_folder |-> file_item.is_folder,
     type_code |-> file_item.type_code,
     creator_code |-> file_item.creator_code]

\* entries of a listing; size is the kind of JSON value the entry carries
FileA == [keys |-> {"name"}, name |-> <<"a">>, is_folder |-> FALSE,
          size |-> "int", type_code |-> "TEXT", creator_code |-> "ttxt"]
FolderD == [keys |-> {"name"}, name |-> <<"d">>, is_folder |-> TRUE,
            size |-> "null", type_code |-> "fldr", creator_code |-> "n/a"]
NoNameFile == [keys |-> {}, name |-> <<>>, is_folder |-> FALSE,
               size |-> "int", type_code |-> "TEXT", creator_code |-> "ttxt"]
\* an entry whose size is a string the size column cannot take
BadSizeFile == [keys |-> {"name"}, name |-> <<"x">>, is_folder |-> FALSE,
                size |-> "str", type_code |-> "TEXT", creator_code |-> "ttxt"]

\* the 'paths' mapping of a listing, in iteration order: <<path, files>>
PathsOne == << << <<Slash>>, <<FileA>> >> >>
PathsThree == << << <<Slash>>, <<FileA, FolderD>> >>,
                 << <<"d">>, <<NoNameFile>> >> >>
PathsBad == << << <<Slash>>, <<BadSizeFile>> >> >>
PathsBadTwo == << << <<Slash>>, <<BadSizeFile, FileA>> >> >>
PathsFive == << << <<Slash>>, <<FileA, FolderD>> >>,
                << <<"d">>, <<FileA, FolderD, NoNameFile>> >> >>

\* what fetch_files_for_server returns: None, or the decoded JSON
ListingNone == [kind |-> "None", status |-> "", shape |-> "", paths |-> <<>>]
Listing(status, shape, paths) ==
    [kind |-> "json", status |-> status, shape |-> shape, paths |-> paths]
Unfetched == [kind |-> "unfetched", status |-> "", shape |-> "", paths |-> <<>>]

ListingPool ==
    { ListingNone,
      Listing("error", "dict", <<>>),
      Listing("ok", "dict", <<>>),
      \* 'paths' is a non-empty JSON array: paths_dict.items() raises
      Listing("ok", "list", <<>>),
      Listing("ok", "dict", PathsOne),
      Listing("ok", "dict", PathsThree),
      Listing("ok", "dict", PathsBad),
      Listing("ok", "dict", PathsBadTwo),
      Listing("ok", "dict", PathsFive) }

\* for path, files in paths_dict.items(): for file_item in files
RECURSIVE Flatten(_)
Flatten(paths) ==
    IF paths = <<>> THEN <<>>
    ELSE LET path == Head(paths)[1]
             files == Head(paths)[2] IN
         [k \in 1..Len(files) |-> <<path, files[k]>>] \o Flatten(Tail(paths))

\* the elements of a sequence
Range(sq) == { sq[k] : k \in DOMAIN sq }

\* the bag of the rows of a sequence
RECURSIVE SeqToBag(_)
SeqToBag(rows) ==
    IF rows = <<>> THEN EmptyBag
    ELSE SetToBag({Head(rows)}) (+) SeqToBag(Tail(rows))

\* the rows of a table owned by server_id
RowsOf(table, server_id) ==
    [r \in {x \in DOMAIN table : x.server_id = server_id} |-> table[r]]

\* mutant of DeleteRows: the DELETE removes nothing
DeleteRows_Nothing(table, server_id) == table

\* DELETE FROM hotline_files WHERE server_id = %s
DeleteRows(table, server_id) ==
    [r \in {x \in DOMAIN table : x.server_id # server_id} |-> table[r]]

\* the storage rejects a row whose size is not a number or NULL; executemany
\* raises mysql.connector.Error when the chunk holds such a row
Storable(row) == row.size \in {"int", "null"}
InsertFails(rows) == \E k \in DOMAIN rows : ~Storable(rows[k])

\* tables hotline_files earlier cycles may have left behind
OldRow(id, nm) ==
    [server_id |-> id, name |-> nm, full_path |-> <<Slash>> \o nm,
     parent_path |-> <<Slash>>, size |-> "int", is_folder |-> FALSE,
     type_code |-> "TEXT", creator_code |-> "ttxt"]

PriorFileTables ==
    { EmptyBag,
      SetToBag({OldRow("A", <<"o">>), OldRow("B", <<"o">>), OldRow("C", <<"o">>)}),
      SetToBag({OldRow("A", <<"a">>), OldRow("B", <<"a">>), OldRow("B", <<"o">>)}) }

\* ------------------------------------------ main_file_indexing_job, steps

\* the user job is not running
UsersIdle ==
    /\ active_servers = <<>>
    /\ srv_i = 1
    /\ upc = "idle"
    /\ client = NoClient
    /\ fd_open = FALSE
    /\ io = NoIO
    /\ response = <<>>
    /\ login_ret = "none"
    /\ sent = <<>>
    /\ full_data = 0
    /\ users_on_server = <<>>
    /\ poll_ret = <<>>
    /\ all_user_records = <<>>
    /\ hotline_users = {}
    /\ current_timestamp = 1
    /\ users_before = {}
    /\ insert_result = "none"
    /\ recv_calls = 0

FilesInit ==
    /\ server_list = <<>>
    /\ servers_to_skip_refresh = {}
    /\ fpc = "start"
    /\ f_i = 1
    /\ hotline_files \in PriorFileTables
    /\ batch_files_to_insert = <<>>
    /\ todo = <<>>
    /\ fetched = [id \in FileServerIds |-> Unfetched]
    /\ del_failed = {}
    /\ ops = {}
    /\ dropped = {}
    /\ script_log = {}
    /\ files_before = hotline_files
    /\ chunks = <<>>

InitFiles == FilesInit /\ UsersIdle /\ TrackerIdle /\ NormIdle

\* lines 131-159: load_config, get_server_list_from_db, connect. A missing
\* configuration or an empty server list ends the job; a failed connect is
\* caught by the outer handler (line 257) and the job goes on to line 264
FileJobStart ==
    /\ fpc = "start"
    /\ \E cfg_ok \in BOOLEAN :
         IF ~cfg_ok
         THEN /\ fpc' = "halted"
              /\ UNCHANGED <<server_list, servers_to_skip_refresh, ops>>
         ELSE \E skip \in SkipLists, sl \in FileServerLists, conn_ok \in BOOLEAN :
                /\ servers_to_skip_refresh' = skip
                /\ server_list' = sl
                /\ ops' = ops \cup {<<"select", "hotline_servers">>}
                /\ fpc' = IF sl = <<>> THEN "halted"
                          ELSE IF conn_ok THEN "loop" ELSE "log"
    /\ UNCHANGED <<f_i, hotline_files, batch_files_to_insert, todo, fetched,
                   del_failed, dropped, script_log, files_before, chunks>>
    /\ UNCHANGED nonfile

\* mutant of InSkipList: the skip list is not consulted
InSkipList_Never(server_id) == FALSE

\* line 168: server_id in servers_to_skip_refresh
InSkipList(server_id) == server_id \in servers_to_skip_refresh

\* lines 161-170: a server of the skip list is passed over
FileSkip ==
    /\ fpc = "loop"
    /\ f_i <= Len(server_list)
    /\ InSkipList(server_list[f_i].unique_id)
    /\ f_i' = f_i + 1
    /\ UNCHANGED <<server_list, servers_to_skip_refresh, fpc, hotline_files,
                   batch_files_to_insert, todo, fetched, del_failed, ops,
                   dropped, script_log, files_before, chunks>>
    /\ UNCHANGED nonfile

\* mutant of FileDelete: the old rows are kept until a listing has arrived
FileDelete_Deferred ==
    /\ fpc = "loop"
    /\ f_i <= Len(server_list)
    /\ ~InSkipList(server_list[f_i].unique_id)
    /\ LET server_id == server_list[f_i].unique_id IN
       /\ ops' = ops \cup {<<"delete", server_id>>}
       /\ \E ok \in BOOLEAN :
            IF ok
            THEN /\ hotline_files' = hotline_files
                 /\ fpc' = "fetch"
                 /\ UNCHANGED <<f_i, del_failed>>
            ELSE /\ del_failed' = del_failed \cup {server_id}
                 /\ f_i' = f_i + 1
                 /\ UNCHANGED <<hotline_files, fpc>>
    /\ UNCHANGED <<server_list, servers_to_skip_refresh, batch_files_to_insert,
                   todo, fetched, dropped, script_log, files_before, chunks>>
    /\ UNCHANGED nonfile

\* mutant of FileDelete: a failed DELETE does not pass the server over
FileDelete_FailThrough ==
    /\ fpc = "loop"
    /\ f_i <= Len(server_list)
    /\ ~InSkipList(server_list[f_i].unique_id)
    /\ LET server_id == server_list[f_i].unique_id IN
       /\ ops' = ops \cup {<<"delete", server_id>>}
       /\ \E ok \in BOOLEAN :
            IF ok
            THEN /\ hotline_files' = DeleteRows(hotline_files, server_id)
                 /\ fpc' = "fetch"
                 /\ UNCHANGED <<f_i, del_failed>>
            ELSE /\ del_failed' = del_failed \cup {server_id}
                 /\ fpc' = "fetch"
                 /\ UNCHANGED <<hotline_files, f_i>>
    /\ UNCHANGED <<server_list, servers_to_skip_refresh, batch_files_to_insert,
                   todo, fetched, dropped, script_log, files_before, chunks>>
    /\ UNCHANGED nonfile

\* lines 172-181: DELETE of the server's rows, committed at once; on a MySQL
\* error the delete is rolled back and the server is passed over
FileDelete ==
    /\ fpc = "loop"
    /\ f_i <= Len(server_list)
    /\ ~InSkipList(server_list[f_i].unique_id)
    /\ LET server_id == server_list[f_i].unique_id IN
       /\ ops' = ops \cup {<<"delete", server_id>>}
       /\ \E ok \in BOOLEAN :
            IF ok
            THEN /\ hotline_files' = DeleteRows(hotline_files, server_id)
                 /\ fpc' = "fetch"
                 /\ UNCHANGED <<f_i, del_failed>>
            ELSE /\ del_failed' = del_failed \cup {server_id}
                 /\ f_i' = f_i + 1
                 /\ UNCHANGED <<hotline_files, fpc>>
    /\ UNCHANGED <<server_list, servers_to_skip_refresh, batch_files_to_insert,
                   todo, fetched, dropped, script_log, files_before, chunks>>
    /\ UNCHANGED nonfile

\* lines 183-194: fetch_files_for_server and the checks on its result. None,
\* a status other than 'ok' and an empty 'paths' pass the server over; a
\* 'paths' that is no mapping raises AttributeError at line 197, which no
\* handler of the job catches: the job ends there (lines 259-262 run, lines
\* 247-255 and 264-269 do not)
FileFetch ==
    /\ fpc = "fetch"
    /\ LET server_id == server_list[f_i].unique_id IN
       \E l \in ListingPool :
         /\ fetched' = [fetched EXCEPT ![server_id] = l]
         /\ ops' = ops \cup {<<"fetch", server_id>>}
         /\ IF l.kind = "None" \/ l.status # "ok"
            THEN /\ f_i' = f_i + 1 /\ fpc' = "loop" /\ UNCHANGED todo
            ELSE IF l.shape = "list"
            THEN /\ fpc' = "aborted" /\ UNCHANGED <<f_i, todo>>
            ELSE IF l.paths = <<>> \/ Flatten(l.paths) = <<>>
            THEN /\ f_i' = f_i + 1 /\ fpc' = "loop" /\ UNCHANGED todo
            ELSE /\ todo' = Flatten(l.paths)
                 /\ fpc' = "items"
                 /\ UNCHANGED f_i
    /\ UNCHANGED <<server_list, servers_to_skip_refresh, hotline_files,
                   batch_files_to_insert, del_failed, dropped, script_log,
                   files_before, chunks>>
    /\ UNCHANGED nonfile

\* the server ids of the rows of a chunk
Owners(rows) == { rows[k].server_id : k \in DOMAIN rows }

\* mutant of InsertChunk: a failed chunk is not rolled back
InsertChunk_NoRollback(table, rows) == table (+) SeqToBag(rows)

\* cursor.executemany(insert_query, rows); connection.commit(): the table
\* after it (unchanged when the statement fails and is rolled back)
InsertChunk(table, rows) ==
    IF InsertFails(rows) THEN table ELSE table (+) SeqToBag(rows)

\* mutant of BatchFull: the batch is written one row late
BatchFull_Late(batch) == Len(batch) > BATCH_SIZE

\* line 229: len(batch_files_to_insert) >= BATCH_SIZE
BatchFull(batch) == Len(batch) >= BATCH_SIZE

\* lines 231-239 and 249-255: executemany, then commit, or rollback on a
\* MySQL error; `at` is where in the job the chunk is written
WriteChunk(rows, at) ==
    /\ hotline_files' = InsertChunk(hotline_files, rows)
    /\ dropped' = IF InsertFails(rows) THEN dropped \cup {rows} ELSE dropped
    /\ ops' = ops \cup { <<"insert", o>> : o \in Owners(rows) }
    /\ chunks' = Append(chunks, [rows |-> rows, at |-> at,
                                 ok |-> ~InsertFails(rows)])

\* lines 198-239: one file_item: normalize, append to the pending batch and
\* write the batch when it has BATCH_SIZE rows; the batch is cleared whether
\* the write succeeded or not. After the last item the server is done
FileItem ==
    /\ fpc = "items"
    /\ todo # <<>>
    /\ LET server_id == server_list[f_i].unique_id
           batch == Append(batch_files_to_insert,
                           DataTuple(server_id, Head(todo)[1], Head(todo)[2]))
       IN
       IF BatchFull(batch)
       THEN /\ WriteChunk(batch, "loop")
            /\ batch_files_to_insert' = <<>>
       ELSE /\ batch_files_to_insert' = batch
            /\ UNCHANGED <<hotline_files, dropped, ops, chunks>>
    /\ todo' = Tail(todo)
    /\ IF Tail(todo) = <<>>
       THEN /\ f_i' = f_i + 1 /\ fpc' = "loop"
       ELSE UNCHANGED <<f_i, fpc>>
    /\ UNCHANGED <<server_list, servers_to_skip_refresh, fetched, del_failed,
                   script_log, files_before>>
    /\ UNCHANGED nonfile

\* mutant of FinalBatch: the rows still pending after the loop are not written
FinalBatch_Forgotten ==
    /\ fpc = "loop"
    /\ f_i > Len(server_list)
    /\ fpc' = "log"
    /\ UNCHANGED <<hotline_files, dropped, ops, batch_files_to_insert, chunks>>
    /\ UNCHANGED <<server_list, servers_to_skip_refresh, f_i, todo, fetched,
                   del_failed, script_log, files_before, chunks>>
    /\ UNCHANGED nonfile

\* lines 247-262: the rows still pending after the loop are written
FinalBatch ==
    /\ fpc = "loop"
    /\ f_i > Len(server_list)
    /\ IF batch_files_to_insert # <<>>
       THEN WriteChunk(batch_files_to_insert, "final")
       ELSE UNCHANGED <<hotline_files, dropped, ops, chunks>>
    /\ fpc' = "log"
    /\ UNCHANGED batch_files_to_insert
    /\ UNCHANGED <<server_list, servers_to_skip_refresh, f_i, todo, fetched,
                   del_failed, script_log, files_before>>
    /\ UNCHANGED nonfile

\* lines 264-269 and log_script_run (96-120): the run is logged, unless the
\* write to script_log fails
LogRun ==
    /\ fpc = "log"
    /\ \E ok \in BOOLEAN :
         script_log' = IF ok THEN script_log \cup {"file_indexer"}
                             ELSE script_log
    /\ fpc' = "done"
    /\ UNCHANGED <<server_list, servers_to_skip_refresh, f_i, hotline_files,
                   batch_files_to_insert, todo, fetched, del_failed, ops,
                   dropped, files_before, chunks>>
    /\ UNCHANGED nonfile

NextFiles ==
    \/ FileJobStart
    \/ FileSkip
    \/ FileDelete
    \/ FileFetch
    \/ FileItem
    \/ FinalBatch
    \/ LogRun

SpecFiles == InitFiles /\ [][NextFiles]_vars

\* ======================================================== HLTracker.py

\* what config.json may hold when load_config reads it: a usable file, no
\* file, a file that is no JSON, a JSON object without the key 'db_config',
\* and one whose 'db_config' is an empty object (no host, user or password)
ConfigStates == {"ok", "not_found", "bad_json", "no_db_config",
                 "empty_db_config"}

\* load_config, lines 21-45: None unless the file is JSON with a 'db_config'
\* that is not null; the keys of db_config are not looked at
LoadConfig(config) ==
    IF config \in {"not_found", "bad_json", "no_db_config"}
    THEN "None" ELSE "db_config"

\* the keys update_database reads from an entry of the directory (the six
\* columns description ... last_checked_in are read like `name`)
DirectoryFields == {"unique_id", "name", "ip", "port", "mirror_sources"}

\* entries of the tracker's JSON; mirrors: what 'mirror_sources' holds
Dir1 == [keys |-> DirectoryFields, unique_id |-> "u1", name |-> "n1",
         ip |-> "38.15.175.9", port |-> "5500", mirrors |-> <<"ma", "mb">>]
Dir2 == [keys |-> DirectoryFields, unique_id |-> "u2", name |-> "n2",
         ip |-> "71.172.38.20", port |-> "5500", mirrors |-> <<>>]
\* an entry without the keys 'name' and 'mirror_sources'
Dir3 == [keys |-> {"unique_id", "ip", "port"}, unique_id |-> "u3",
         name |-> "", ip |-> "24.6.82.54", port |-> "5500", mirrors |-> <<>>]
\* an entry whose 'mirror_sources' holds a number: str.join raises TypeError
Dir4 == [keys |-> DirectoryFields, unique_id |-> "u4", name |-> "n4",
         ip |-> "3.250.91.163", port |-> "5500", mirrors |-> <<"<int>">>]

DirectoryPool == {Dir1, Dir2, Dir3, Dir4}

\* server.get(key): None when the key is missing
Get(server, key, value) == IF key \in server.keys THEN value ELSE "None"

\* ",".join(server.get('mirror_sources', []))
RECURSIVE Join(_)
Join(strs) ==
    IF strs = <<>> THEN <<>>
    ELSE IF Len(strs) = 1 THEN <<Head(strs)>>
    ELSE <<Head(strs), ",">> \o Join(Tail(strs))

JoinRaises(server) ==
    "mirror_sources" \in server.keys /\ "<int>" \in Range(server.mirrors)

\* lines 92-107: data_tuple
ServerTuple(server) ==
    [unique_id |-> Get(server, "unique_id", server.unique_id),
     name |-> Get(server, "name", server.name),
     ip |-> Get(server, "ip", server.ip),
     port |-> Get(server, "port", server.port),
     mirror_sources |-> IF "mirror_sources" \in server.keys
                        THEN Join(server.mirrors) ELSE <<>>]

\* what fetch_server_data returns: None (request failed, no JSON, or no key
\* 'servers'), else the list under 'servers' (each unique id once)
FetchedNone == [kind |-> "None", servers |-> <<>>]
Directories ==
    { sq \in UNION { [1..n -> DirectoryPool] : n \in 0..MaxDirectory } :
        \A a, b \in DOMAIN sq : a # b => sq[a] # sq[b] }
ServerData == {FetchedNone} \cup { [kind |-> "list", servers |-> d] :
                                    d \in Directories }

\* tables hotline_servers earlier cycles may have left behind
PriorServerTables ==
    { {},
      { ServerTuple(Dir1) },
      { ServerTuple(Dir2),
        [unique_id |-> "u9", name |-> "gone", ip |-> "127.0.0.2",
         port |-> "5500", mirror_sources |-> <<>>] } }

TrackerInit ==
    /\ tpc = "start"
    /\ t_config \in ConfigStates
    /\ server_data = NotFetched
    /\ hotline_servers \in PriorServerTables
    /\ servers_before = hotline_servers
    /\ t_ops = <<>>
    /\ t_write = "none"

InitTracker == TrackerInit /\ UsersIdle /\ FilesIdle /\ NormIdle

\* main_job, lines 159-162: without a configuration the job halts
TrackerStart ==
    /\ tpc = "start"
    /\ tpc' = IF LoadConfig(t_config) = "None" THEN "halted" ELSE "fetch"
    /\ UNCHANGED <<t_config, server_data, hotline_servers, servers_before,
                   t_ops, t_write>>
    /\ UNCHANGED <<nontracker, script_log>>

\* main_job, lines 164-172, and fetch_server_data: the request to the
\* tracker; None ends the job with "Update failed"
TrackerFetch ==
    /\ tpc = "fetch"
    /\ t_ops' = Append(t_ops, "tracker_request")
    /\ \E d \in ServerData :
         /\ server_data' = d
         /\ tpc' = IF d.kind = "None" THEN "failed" ELSE "update"
    /\ UNCHANGED <<t_config, hotline_servers, servers_before, t_write>>
    /\ UNCHANGED <<nontracker, script_log>>

\* how update_database may end for a non-empty list
WriteOutcomes == {"ok", "connect_err", "truncate_err", "insert_err"}

\* the rows of a directory
ServerTuples(servers) == { ServerTuple(servers[k]) : k \in DOMAIN servers }

\* lines 75-119: the table after update_database. TRUNCATE commits at once,
\* so the rollback after a failed insert leaves the table empty
TableAfterUpdate(table, servers, out) ==
    CASE out = "ok" -> ServerTuples(servers)
      [] out = "insert_err" -> {}
      [] OTHER -> table

\* update_database, lines 65-125. An empty list returns at line 71 before
\* any statement; a TypeError raised while the tuples are built (after the
\* TRUNCATE) is not caught and ends main_job
UpdateDatabase ==
    /\ tpc = "update"
    /\ LET servers == server_data.servers IN
       IF servers = <<>>
       THEN /\ t_write' = "skipped"
            /\ tpc' = "log"
            /\ UNCHANGED <<hotline_servers, t_ops>>
       ELSE \E out \in WriteOutcomes :
              IF out \in {"ok", "insert_err"}
                 /\ \E k \in DOMAIN servers : JoinRaises(servers[k])
              THEN /\ t_write' = "raised"
                   /\ tpc' = "crashed"
                   /\ hotline_servers' = {}
                   /\ t_ops' = t_ops \o <<"db_connect", "truncate">>
              ELSE /\ t_write' = out
                   /\ tpc' = "log"
                   /\ hotline_servers' =
                         TableAfterUpdate(hotline_servers, servers, out)
                   /\ t_ops' = t_ops \o
                         CASE out = "connect_err" -> <<"db_connect">>
                           [] out = "truncate_err" -> <<"db_connect", "truncate">>
                           [] OTHER -> <<"db_connect", "truncate", "insert">>
    /\ UNCHANGED <<t_config, server_data, servers_before>>
    /\ UNCHANGED <<nontracker, script_log>>

\* main_job, line 170, and log_script_run (127-151): the run is logged after
\* update_database returned, unless the write to script_log fails
TrackerLog ==
    /\ tpc = "log"
    /\ t_ops' = Append(t_ops, "db_connect")
    /\ \E ok \in BOOLEAN :
         script_log' = IF ok THEN script_log \cup {"server_updater"}
                             ELSE script_log
    /\ tpc' = "done"
    /\ UNCHANGED <<t_config, server_data, hotline_servers, servers_before,
                   t_write>>
    /\ UNCHANGED nontracker

NextTracker ==
    \/ TrackerStart
    \/ TrackerFetch
    \/ UpdateDatabase
    \/ TrackerLog

SpecTracker == InitTracker /\ [][NextTracker]_vars

\* ============================ HLFiles.py : the normalization of a listing

\* strings over chars of at most n characters
Strings(chars, n) == UNION { [1..k -> chars] : k \in 0..n }

\* directory paths and entries a server may list
NormPaths == Strings({Slash, "d"}, MaxPathLen)
NormItems ==
    { [keys |-> {"name"}, name |-> nm, is_folder |-> f, size |-> "int",
       type_code |-> "TEXT", creator_code |-> "ttxt"] :
          nm \in Strings({Slash, "a"}, MaxNameLen), f \in BOOLEAN }
    \cup
    { [keys |-> {}, name |-> <<>>, is_folder |-> f, size |-> "int",
       type_code |-> "TEXT", creator_code |-> "ttxt"] : f \in BOOLEAN }

\* the (path, file_item) pairs the two for loops of lines 197-198 go through
NormPairs == NormPaths \X NormItems

\* listings of one or two entries
NormInit ==
    /\ npc = "items"
    /\ n_todo \in { <<a>> : a \in NormPairs }
                  \cup { <<a, b>> : a \in NormPairs, b \in NormPairs }
    /\ n_done = <<>>
    /\ n_rows = <<>>

InitNorm == NormInit /\ UsersIdle /\ FilesIdle /\ TrackerIdle

\* lines 198-225: one file_item is normalized and its data tuple appended
NormItem ==
    /\ npc = "items"
    /\ n_todo # <<>>
    /\ n_rows' = Append(n_rows, DataTuple("A", Head(n_todo)[1], Head(n_todo)[2]))
    /\ n_done' = Append(n_done, Head(n_todo))
    /\ n_todo' = Tail(n_todo)
    /\ UNCHANGED npc
    /\ UNCHANGED <<uvars, fvars, tvars>>

\* the for loops of lines 197-198 are exhausted
NormEnd ==
    /\ npc = "items"
    /\ n_todo = <<>>
    /\ npc' = "done"
    /\ UNCHANGED <<n_todo, n_done, n_rows>>
    /\ UNCHANGED <<uvars, fvars, tvars>>

NextNorm ==
    \/ NormItem
    \/ NormEnd

SpecNorm == InitNorm /\ [][NextNorm]_vars

\* ===================================================== claims, HLUsers.py
\* index in active_servers of the server whose poll the history variables
\* (io, sent, login_ret, poll_ret) describe
LastPolled == IF upc \in {"main", "done"} THEN srv_i - 1 ELSE srv_i

TocnSent == \E k \in DOMAIN sent : sent[k].type = "TOCN"
HlogSent == \E k \in DOMAIN sent : sent[k].type = "HLOG"

\* C1: when connect_and_login has returned after a timeout of the connect,
\* of the handshake send or read, or of the login send, it returned False
\* and the session is not connected (only the login read may time out into
\* an accepted login).
C1_TimeoutBeforeLoginReadFails ==
    (upc = "login_returned" /\ \E op \in {"connect", "hs_send", "hs_recv", "login_send"} :
                                    io[op] = "timeout")
        => (login_ret = "False" /\ ~client.connected)

\* C2: when retrieve_user_data_for_server has returned, the socket of the
\* poll is closed.
C2_SocketClosedOnReturn == upc = "returned" => ~fd_open

\* C3: a login read of zero bytes rejects the login: connect_and_login
\* returns False, the session is not connected, no TOCN request is sent and
\* the poll returns no record for the cycle.
C3_ZeroByteLoginRejected ==
    io.login_recv = "zero" =>
        /\ login_ret = "False"
        /\ ~client.connected
        /\ ~TocnSent
        /\ io.tocn_send = "none"
        /\ upc \in {"returned", "main", "done"} => poll_ret = <<>>

C3_Witness == upc = "returned" /\ io.login_recv = "zero"

\* C4: a login read that times out accepts the login: connect_and_login
\* returns True with the session connected on an open socket, and the poll
\* goes on to the TOCN send of get_user_list.
C4_SilentPeerAccepted ==
    io.login_recv = "timeout" =>
        /\ login_ret = "True"
        /\ upc = "login_returned" =>
             (client.connected /\ client.socket # "None" /\ fd_open)
        /\ upc # "login_returned" => io.tocn_send # "none"

C4_Witness == io.login_recv = "timeout" /\ upc = "tocn_recv" /\ TocnSent

\* C5: a non-empty login response whose first word is the success code is
\* accepted whatever its other bytes are.
C5_SuccessStatusAccepted ==
    (upc = "login_returned" /\ io.login_recv = "data" /\ StatusWord(response) = 1)
        => login_ret = "True"

\* C6: after a handshake read of zero bytes the attempt fails and the login
\* message is never sent.
C6_EmptyHandshakeFails ==
    io.hs_recv = "zero" =>
        /\ upc # "login_send"
        /\ ~HlogSent
        /\ login_ret # "True"

\* C8: no tracker entry ends the user cycle early: main never leaves its
\* loop through an exception.
C8_CycleNeverAborts == upc # "crashed"

\* the types of the messages written to the socket in the current poll
SentTypes == [k \in DOMAIN sent |-> sent[k].type]

\* the login read of the current poll was classified ACCEPTED
LoginClassifiedAccepted ==
    \/ io.login_recv = "timeout"
    \/ io.login_recv = "data" /\ login_ret = "True"

\* C20: the messages of a poll go out in the order handshake, login, query,
\* and the query is sent only when the connect completed, the handshake was
\* sent and answered, the login was sent and its response was classified
\* ACCEPTED.
C20_PhasesInOrder ==
    /\ \E n \in 0..3 : SentTypes = SubSeq(<<"TRTP", "HLOG", "TOCN">>, 1, n)
    /\ TocnSent =>
          /\ io.connect = "ok"
          /\ io.hs_send = "ok"
          /\ io.hs_recv = "data"
          /\ io.login_send = "ok"
          /\ LoginClassifiedAccepted

\* C21: every poll that was started reaches its end (the list is returned to
\* main), whatever the peer does; in particular the accumulation loop of
\* get_user_list is left.
C21_PollTerminates == (upc = "connect") ~> (upc = "returned")

\* the (server id, user name) of a record collected in the cycle
ObservedKey(k) ==
    <<all_user_records[k].server_unique_id, all_user_records[k].user_name>>

\* the last record of the cycle that carries the key of the k-th
LastObservation(k) ==
    CHOOSE j \in DOMAIN all_user_records :
        /\ ObservedKey(j) = ObservedKey(k)
        /\ \A i \in DOMAIN all_user_records :
              ObservedKey(i) = ObservedKey(k) => i <= j

\* C16: table hotline_users never holds two rows with the same (server id,
\* user name), and once the cycle's batch is committed the row of every key
\* observed in the cycle carries the icon id of the last observation of that
\* key and the timestamp of the cycle, whether the key was there before or
\* was observed twice in the batch.
C16_OneRowPerUser ==
    /\ \A r1, r2 \in hotline_users : UserKey(r1) = UserKey(r2) => r1 = r2
    /\ insert_result = "committed" =>
          \A k \in DOMAIN all_user_records :
             \E r \in hotline_users :
                /\ UserKey(r) = ObservedKey(k)
                /\ r.user_icon_id =
                      all_user_records[LastObservation(k)].user_icon_id
                /\ r.timestamp = current_timestamp

\* a key persisted by an earlier cycle is observed twice in one batch, with
\* two icon ids, the later one differing from the persisted one
C16_Witness ==
    /\ insert_result = "committed"
    /\ \E i, j \in DOMAIN all_user_records :
          /\ i < j
          /\ ObservedKey(i) = ObservedKey(j)
          /\ all_user_records[i].user_icon_id # all_user_records[j].user_icon_id
          /\ \E r \in users_before :
                /\ UserKey(r) = ObservedKey(j)
                /\ r.user_icon_id = all_user_records[i].user_icon_id

\* the keys observed in the cycle
ObservedKeys == { ObservedKey(k) : k \in DOMAIN all_user_records }

\* C17: every row the table held when the cycle began is still there under
\* its key, and a row whose key was not observed in the cycle is unchanged.
C17_UnobservedUntouched ==
    \A r \in users_before :
        /\ \E r2 \in hotline_users : UserKey(r2) = UserKey(r)
        /\ UserKey(r) \notin ObservedKeys => r \in hotline_users

\* the server ids that contributed a record to the cycle
ObservedServers ==
    { all_user_records[k].server_unique_id : k \in DOMAIN all_user_records }

\* a batch is committed in a cycle that polled two servers with persisted
\* rows: one reported other users only, the poll of the other gave nothing
C17_Witness ==
    /\ insert_result = "committed"
    /\ hotline_users # users_before
    /\ \E r1, r2 \in users_before :
          /\ {r1.server_unique_id, r2.server_unique_id}
                \subseteq { active_servers[k].unique_id :
                               k \in DOMAIN active_servers }
          /\ UserKey(r1) \notin ObservedKeys
          /\ r1.server_unique_id \in ObservedServers
          /\ r2.server_unique_id \notin ObservedServers
          /\ {r1, r2} \subseteq hotline_users

\* the number of query requests among the first k messages of the session
QueriesSent(k) ==
    Cardinality({ j \in 1..k : sent[j].type = "TOCN" })

\* a HotlineClient exists (the poll is between its construction and return)
InSession ==
    upc \in {"connect", "hs_send", "hs_recv", "login_send", "login_recv",
             "login_returned", "tocn_recv", "got_users"}

\* C26: the counter of a session starts at 1, the n-th query request of the
\* session carries transaction id n, and the counter is always one more
\* than the number of query requests the session has sent, whatever earlier
\* sessions of the cycle did.
C26_CounterPerSession ==
    /\ upc = "connect" => client.transaction_id_counter = 1
    /\ \A k \in DOMAIN sent :
          sent[k].type = "TOCN" => sent[k].tid = QueriesSent(k)
    /\ InSession =>
          client.transaction_id_counter = 1 + QueriesSent(Len(sent))

\* the second session of a cycle has sent its query with transaction id 1
\* after the first session had sent one too
C26_Witness ==
    /\ srv_i = 2
    /\ upc = "tocn_recv"
    /\ all_user_records # <<>>
    /\ sent[Len(sent)] = [type |-> "TOCN", tid |-> 1]
    /\ client.transaction_id_counter = 2

\* C25: the table changes only through the one committed batch of the
\* cycle: until then, and when the write failed or there was nothing to
\* write, it is as it was when the cycle began; after the commit every
\* collected record has its row, stamped with the cycle's timestamp.
C25_AllOrNothing ==
    /\ insert_result # "committed" => hotline_users = users_before
    /\ insert_result = "committed" =>
          \A k \in DOMAIN all_user_records :
             \E r \in hotline_users :
                /\ UserKey(r) = ObservedKey(k)
                /\ r.timestamp = current_timestamp

\* the write of a batch collected from two servers fails, and the table,
\* which held rows before, is as it was
C25_Witness ==
    /\ upc = "done"
    /\ insert_result = "error"
    /\ Cardinality(ObservedServers) >= 2
    /\ users_before # {}
    /\ hotline_users = users_before

\* ===================================================== claims, HLFiles.py

\* the rows main_file_indexing_job builds from the listing fetched for id
FreshRows(id) ==
    LET items == Flatten(fetched[id].paths) IN
    [k \in 1..Len(items) |-> DataTuple(id, items[k][1], items[k][2])]

\* the listing fetched for id is a well-formed one with status ok
ValidListing(id) ==
    /\ fetched[id].kind = "json"
    /\ fetched[id].status = "ok"
    /\ fetched[id].shape = "dict"

\* nothing failed in the cycle so far
NoFailure ==
    /\ del_failed = {}
    /\ dropped = {}
    /\ \A id \in FileServerIds : fetched[id].kind # "None"

\* C7: the file cycle is never aborted, and at its end every server whose
\* own reconciliation did not fail (delete committed, valid listing, rows the
\* storage accepts) has all its fetched rows persisted, whatever failed for
\* the other servers.
C7_FailureContained ==
    /\ fpc # "aborted"
    /\ fpc = "done" =>
         \A id \in FileServerIds :
            (/\ ValidListing(id)
             /\ id \notin del_failed
             /\ ~InsertFails(FreshRows(id)))
            => SeqToBag(FreshRows(id)) \sqsubseteq RowsOf(hotline_files, id)

\* C9: a server of the skip list keeps exactly the rows it had when the
\* cycle began, and no delete, fetch or insert is performed for it.
C9_SkippedUntouched ==
    \A id \in servers_to_skip_refresh :
        /\ RowsOf(hotline_files, id) = RowsOf(files_before, id)
        /\ \A op \in {"delete", "fetch", "insert"} : <<op, id>> \notin ops

C9_Witness ==
    /\ fpc = "done"
    /\ "A" \in servers_to_skip_refresh
    /\ \E k \in DOMAIN server_list : server_list[k].unique_id = "A"
    /\ RowsOf(files_before, "A") # EmptyBag
    /\ \E id \in FileServerIds : <<"insert", id>> \in ops

\* C10: at the end of a cycle in which nothing failed, the rows of every
\* server whose listing came back with status ok are exactly the rows built
\* from that listing, each once, and none of its earlier rows.
C10_FullReplace ==
    (fpc = "done" /\ NoFailure) =>
        \A id \in FileServerIds :
            (fetched[id].kind = "json" /\ fetched[id].status = "ok")
            => RowsOf(hotline_files, id) = SeqToBag(FreshRows(id))

C10_Witness ==
    /\ fpc = "done"
    /\ NoFailure
    /\ batch_files_to_insert # <<>>
    /\ \E id \in FileServerIds :
         /\ fetched[id].paths = PathsThree
         /\ RowsOf(files_before, id) # EmptyBag
         /\ RowsOf(hotline_files, id) = SeqToBag(FreshRows(id))

\* the DELETE of id's rows was committed in this cycle
DeleteCommitted(id) == <<"delete", id>> \in ops /\ id \notin del_failed

\* C11: at every point of the cycle the rows of a server are all its prior
\* rows, or none, or only rows built from its fresh listing (never prior and
\* fresh rows together), and rows of a server are inserted only after its
\* DELETE was committed.
C11_NeverMixed ==
    \A id \in FileServerIds :
        /\ \/ RowsOf(hotline_files, id) = RowsOf(files_before, id)
           \/ RowsOf(hotline_files, id) = EmptyBag
           \/ RowsOf(hotline_files, id) \sqsubseteq SeqToBag(FreshRows(id))
        /\ <<"insert", id>> \in ops => DeleteCommitted(id)
        /\ ~DeleteCommitted(id) =>
             RowsOf(hotline_files, id) = RowsOf(files_before, id)

\* fresh rows of a server that had other rows before are persisted while a
\* chunk of the cycle was rolled back
C11_Witness ==
    /\ dropped # {}
    /\ \E id \in FileServerIds :
         /\ RowsOf(files_before, id) # EmptyBag
         /\ RowsOf(hotline_files, id) # EmptyBag
         /\ RowsOf(hotline_files, id) # RowsOf(files_before, id)
         /\ RowsOf(hotline_files, id) \sqsubseteq SeqToBag(FreshRows(id))

\* the fetch for id brought nothing to insert: no answer, a status other
\* than ok, or no paths
FetchGaveNothing(id) ==
    \/ fetched[id].kind = "None"
    \/ fetched[id].kind = "json" /\ fetched[id].status # "ok"
    \/ /\ ValidListing(id)
       /\ Flatten(fetched[id].paths) = <<>>

\* C22: the listing of a server is fetched only after the DELETE of its rows
\* was committed: the rows are gone when the fetch starts, and a server
\* whose fetch brought nothing has no rows from then on.
C22_DeletedBeforeFetch ==
    /\ fpc = "fetch" =>
          /\ DeleteCommitted(server_list[f_i].unique_id)
          /\ RowsOf(hotline_files, server_list[f_i].unique_id) = EmptyBag
    /\ \A id \in FileServerIds :
          <<"fetch", id>> \in ops =>
             /\ DeleteCommitted(id)
             /\ FetchGaveNothing(id) =>
                   RowsOf(hotline_files, id) = EmptyBag

\* a cycle ends in which two servers with prior rows were refreshed, one
\* fetch returning None and the other a status that is not ok
C22_Witness ==
    /\ fpc = "done"
    /\ \E a, b \in FileServerIds :
          /\ fetched[a].kind = "None"
          /\ fetched[b].kind = "json" /\ fetched[b].status # "ok"
          /\ RowsOf(files_before, a) # EmptyBag
          /\ RowsOf(files_before, b) # EmptyBag
          /\ RowsOf(hotline_files, a) = EmptyBag
          /\ RowsOf(hotline_files, b) = EmptyBag

\* C23: a server whose DELETE failed is passed over: its rows are those it
\* had when the cycle began, nothing is fetched or inserted for it, and the
\* loop has moved on to the servers after it.
C23_FailedDeleteSkips ==
    \A id \in del_failed :
        /\ RowsOf(hotline_files, id) = RowsOf(files_before, id)
        /\ <<"fetch", id>> \notin ops
        /\ <<"insert", id>> \notin ops
        /\ fetched[id] = Unfetched
        /\ \A k \in DOMAIN server_list :
              server_list[k].unique_id = id => f_i > k

\* the DELETE of the first server failed, the second server was refreshed
\* and the cycle ended
C23_Witness ==
    /\ fpc = "done"
    /\ Len(server_list) = 2
    /\ server_list[1].unique_id \in del_failed
    /\ RowsOf(files_before, server_list[1].unique_id) # EmptyBag
    /\ RowsOf(hotline_files, server_list[1].unique_id)
          = RowsOf(files_before, server_list[1].unique_id)
    /\ <<"insert", server_list[2].unique_id>> \in ops
    /\ RowsOf(hotline_files, server_list[2].unique_id) # EmptyBag

\* ------------------------------------------------ claims, insert chunks

\* the rows of a sequence of chunks, in the order they were handed over
RECURSIVE ChunkRows(_)
ChunkRows(cs) ==
    IF cs = <<>> THEN <<>> ELSE Head(cs).rows \o ChunkRows(Tail(cs))

\* the rows the for loop has built for the k-th server of server_list so far
BuiltFor(k) ==
    LET id == server_list[k].unique_id IN
    IF k < f_i /\ ValidListing(id) THEN FreshRows(id)
    ELSE IF k = f_i /\ fpc = "items"
    THEN SubSeq(FreshRows(id), 1, Len(FreshRows(id)) - Len(todo))
    ELSE <<>>

\* the rows built in this cycle so far, in the order they were built
RECURSIVE BuiltUpTo(_)
BuiltUpTo(k) == IF k = 0 THEN <<>> ELSE BuiltUpTo(k - 1) \o BuiltFor(k)
CycleRows == BuiltUpTo(Len(server_list))

\* the chunks that hold a row of server id
ChunksOf(id) == { k \in DOMAIN chunks : id \in Owners(chunks[k].rows) }

\* ceil(n / BATCH_SIZE)
CeilBatches(n) == (n + BATCH_SIZE - 1) \div BATCH_SIZE

\* the cycle ran to its end (line 264 was reached)
CycleEnded == fpc \in {"log", "done"}

C15_ChunkFailureIsolated ==
    /\ \A k \in DOMAIN chunks : chunks[k].ok = ~InsertFails(chunks[k].rows)
    /\ CycleEnded => ChunkRows(chunks) = CycleRows
    /\ ~CycleEnded =>
          ChunkRows(chunks) \o batch_files_to_insert = CycleRows
    /\ \A id \in FileServerIds :
          DeleteCommitted(id) =>
             RowsOf(hotline_files, id) =
                RowsOf(SeqToBag(ChunkRows(SelectSeq(chunks,
                                    LAMBDA c : c.ok))), id)

\* a committed chunk, then a chunk that was rolled back, then the final
\* partial chunk, committed
C15_Witness ==
    /\ fpc = "done"
    /\ Len(chunks) = 3
    /\ chunks[1].ok /\ ~chunks[2].ok /\ chunks[3].ok
    /\ chunks[3].at = "final"
    /\ SeqToBag(chunks[1].rows \o chunks[3].rows) \sqsubseteq hotline_files

\* ------------------------------------------- claims, path normalization

\* C12: every row built from a (directory path, entry) pair has a full_path
\* that starts with "/"; the full_path of a folder ends with "/"; and an
\* entry of the root directory "/" has parent_path "/".
C12_NormalizedPaths ==
    \A k \in DOMAIN n_rows :
        /\ n_rows[k].full_path # <<>>
        /\ Head(n_rows[k].full_path) = Slash
        /\ n_rows[k].is_folder => EndsWithSlash(n_rows[k].full_path)
        /\ n_done[k][1] = <<Slash>> => n_rows[k].parent_path = <<Slash>>

\* a folder of the root and a file of a path without slashes are normalized
C12_Witness ==
    /\ npc = "done"
    /\ \E k \in DOMAIN n_rows :
         /\ n_done[k][1] = <<Slash>>
         /\ n_rows[k].is_folder
         /\ n_rows[k].name = <<"a">>
    /\ \E k \in DOMAIN n_rows :
         /\ n_done[k][1] = <<"d">>
         /\ n_rows[k].full_path = <<Slash, "d", Slash, "a">>

\* the (directory path, entry name) pair of the k-th entry processed
PathAndName(k) == <<n_done[k][1], ItemName(n_done[k][2])>>

\* C13: a listing whose (directory path, entry name) pairs are pairwise
\* distinct yields rows whose full_path values are pairwise distinct.
C13_DistinctFullPaths ==
    (\A i, j \in DOMAIN n_done : i # j => PathAndName(i) # PathAndName(j))
    => (\A i, j \in DOMAIN n_rows :
            i # j => n_rows[i].full_path # n_rows[j].full_path)

\* ------------------------------------------------- claims, HLTracker.py

\* C18: after a tracker cycle whose fetch returned a directory and in which
\* no write failed, table hotline_servers holds exactly the rows of that
\* directory, whatever its size (an empty directory included).
C18_DirectoryReplaced ==
    (/\ tpc \in {"log", "done"}
     /\ server_data.kind = "list"
     /\ t_write \in {"ok", "skipped"})
    => hotline_servers = ServerTuples(server_data.servers)

\* C19: a run whose configuration lacks the storage credentials performs no
\* tracker request and no storage operation.
C19_FailFast == t_config # "ok" => t_ops = <<>>

\* C24: a job's entry in script_log is written only after a run whose
\* storage update succeeded: not after update_database met an error, and not
\* after a file cycle in which a DELETE failed or a chunk was rolled back.
C24_LogOnlyAfterSuccess ==
    /\ "server_updater" \in script_log =>
          t_write \notin {"connect_err", "truncate_err", "insert_err"}
    /\ "file_indexer" \in script_log => (del_failed = {} /\ dropped = {})

====
